---- MODULE Spec2Model ----
(***************************************************************************)
(* SocialBot: the poll -> dispatch -> record -> sleep loop of              *)
(* src/socialbot.py, with RSSFeeders.get_latest_rss, SocialSender, the     *)
(* execution_logs table of DatabaseManager and MuteTimeChecker.            *)
(*                                                                         *)
(* Time is counted in ticks; a day has TicksPerDay ticks.  The asyncio     *)
(* event loop is a FIFO of callbacks (ready); publisher calls run in       *)
(* executor threads and finish at any time.                                *)
(***************************************************************************)
EXTENDS Integers, Sequences, FiniteSets, TLC

\* ------------------------------------------------------------------ bounds
TicksPerDay == 4
MaxDay == 2
CronPeriod == 2
MaxLag == 3
MaxRetentionDays == 1
MaxDaysOfNews == 1
SecPerTick == 60
MaxBots == 2

\* ------------------------------------------------------- program constants
InitialSleepTime == 40
BackoffThreshold == 30
PollRetentionDays == 0

MaxTime == (MaxDay + 1) * TicksPerDay - 1
TimesOfDay == 0 .. (TicksPerDay - 1)

\* ------------------------------------------------------------------- time
\* datetime.replace(hour=0, minute=0, second=0, microsecond=0)
StartOfDay(t) == t - (t % TicksPerDay)
\* A cutoff taken one day too far back
DaysAgo_more(t, d) == t - (d + 1) * TicksPerDay
\* now - timedelta(days=d)
DaysAgo(t, d) == t - d * TicksPerDay
\* datetime.now().time()
TimeOfDay(t) == t % TicksPerDay

\* croniter(cron_expr, now).get_next(): the first fire time strictly after t
CronNext(t) == (t \div CronPeriod + 1) * CronPeriod

\* A from / to string that datetime.strptime(.., "%H:%M") refuses, as "25:00"
InvalidTime == TicksPerDay

\* MuteTimeChecker.is_mute_time: True when the time of day is OUTSIDE the
\* interval [mute_from, mute_to] (wrapping midnight when from > to), True
\* when from = to, and True when strptime raises ValueError on from or to.
is_mute_time(from, to, nowtime) ==
    IF from \notin TimesOfDay \/ to \notin TimesOfDay THEN TRUE
    ELSE IF from = to THEN TRUE
    ELSE IF from < to THEN ~(from <= nowtime /\ nowtime <= to)
    ELSE ~(nowtime >= from \/ nowtime <= to)

\* ----------------------------------------------------------- configuration
Platforms == <<"telegram", "linkedin", "bluesky">>
PlatformSet == {"telegram", "linkedin", "bluesky"}

\* dict.get(key, default)
Get(d, key, default) == IF key \in DOMAIN d THEN d[key] ELSE default

\* settings "bots": the platforms switched on
EnabledBots == [telegram |-> TRUE, linkedin |-> TRUE, bluesky |-> TRUE]

\* DatabaseManager.generate_feed_list: one dict per row of feeds, with a
\* platform key only when the feed is bound to bots of that platform
FeedRows ==
    << [rss |-> "u1", ai |-> FALSE, telegram |-> <<"t1", "t2">>, bluesky |-> <<"b1">>],
       [rss |-> "u2", ai |-> TRUE, linkedin |-> <<"l1">>, bluesky |-> <<"b2">>] >>

\* An export whose Telegram accounts carry a mute flag as the others do
Accounts_tgmute ==
    [telegram |-> << [name |-> "t1", mute |-> TRUE], [name |-> "t2", mute |-> FALSE] >>,
     bluesky  |-> << [name |-> "b1", mute |-> TRUE], [name |-> "b2", mute |-> FALSE] >>,
     linkedin |-> << [name |-> "l1", mute |-> FALSE], [name |-> "l2", mute |-> TRUE] >>]

\* DatabaseManager.export_accounts_cleartext: telegram accounts carry no mute
Accounts ==
    [telegram |-> << [name |-> "t1"], [name |-> "t2"] >>,
     bluesky  |-> << [name |-> "b1", mute |-> TRUE], [name |-> "b2", mute |-> FALSE] >>,
     linkedin |-> << [name |-> "l1", mute |-> FALSE], [name |-> "l2", mute |-> TRUE] >>]

\* find_bot: the position of the first account of `service` named `name`,
\* 0 for None
find_bot(config, service, name) ==
    LET hits == {k \in 1 .. Len(config[service]) : config[service][k].name = name}
    IN  IF hits = {} THEN 0 ELSE CHOOSE k \in hits : \A o \in hits : k <= o

\* ------------------------------------------------------------------ feeds
\* Entries a feed may serve: "a" and "b" are dated, "n" has neither
\* published_parsed nor updated_parsed.  entry.get("link") is the entry's name.
EntryIds == {"a", "b", "n"}
HasDate(e) == e # "n"
\* _entry_date
EntryDate(e) == IF e = "a" THEN 1 ELSE TicksPerDay + 1

\* What requests.get + feedparser.parse give for one feed: an error, or the
\* set of entries
FetchResults ==
    {[ok |-> FALSE, entries |-> {}]} \cup {[ok |-> TRUE, entries |-> s] : s \in SUBSET EntryIds}

\* max(dated, key=lambda pair: pair[1])
LatestEntry(dated) == CHOOSE e \in dated : \A o \in dated : EntryDate(o) <= EntryDate(e)

\* ArticleCommentator.generate_comment() or ""
AIResults == {"cmt", ""}

\* ---------------------------------------------------------- execution_logs
\* DatabaseManager.delete_old_execution_logs(cutoff)
RECURSIVE delete_old_execution_logs(_, _)
delete_old_execution_logs(logs, cutoff) ==
    IF logs = <<>> THEN <<>>
    ELSE LET rest == delete_old_execution_logs(Tail(logs), cutoff)
         IN  IF Head(logs).datetime < cutoff THEN rest ELSE <<Head(logs)>> \o rest

\* DatabaseManager.link_exists_in_execution_logs(link)
link_exists_in_execution_logs(logs, link) ==
    \E k \in 1 .. Len(logs) : logs[k].link = link

\* insert_execution_log_from_json, one item: the item's "datetime" is a
\* datetime object, strptime raises on it, dt_valid stays None and the column
\* takes its default CURRENT_TIMESTAMP
InsertRow(item, t) == [link |-> item.link, datetime |-> t]

\* insert_execution_log_from_json on a list: one INSERT per item, in order
RECURSIVE insert_execution_log_from_json(_, _, _)
insert_execution_log_from_json(logs, data, t) ==
    IF data = <<>> THEN logs
    ELSE insert_execution_log_from_json(Append(logs, InsertRow(Head(data), t)), Tail(data), t)

\* --------------------------------------------------------------- payloads
\* urlparse(url).scheme, lower-cased by urlparse; "" when there is none
urlparse_scheme(url) ==
    CASE url = "http://s" -> "http"
      [] url = "HTTPS://s" -> "https"
      [] url = "ftp://s" -> "ftp"
      [] OTHER -> ""

\* A validation that takes any scheme
is_valid_url_any(url) == urlparse_scheme(url) # ""

\* is_valid_url: result.scheme in ("http", "https")
is_valid_url(url) == urlparse_scheme(url) \in {"http", "https"}

\* Python's truth value of a string or None, and its "a or b"
Falsy(v) == v \in {"None", ""}
Or(a, b) == IF Falsy(a) THEN b ELSE a

\* send_to_*: link_to_use
LinkToUse(feed) ==
    IF ~is_valid_url(Get(feed, "short_link", "None"))
    THEN Get(feed, "link", "")
    ELSE Or(Get(feed, "short_link", "None"), Get(feed, "link", ""))

\* The text parts each platform's post is made of: send_to_telegram's msg,
\* post_feed's text_body, send_to_linkedin's text_for_post
MessageText(feed, p) ==
    LET title == Get(feed, "title", "")
        description == Get(feed, "description", "")
        ai_comment == Or(Get(feed, "ai-comment", "None"), "None")
    IN  IF p = "telegram" THEN <<title, description>>
        ELSE IF p = "bluesky"
        THEN (IF ~Falsy(ai_comment) THEN <<ai_comment>>
              ELSE SelectSeq(<<title, description>>, LAMBDA x : ~Falsy(x)))
        ELSE <<Or(ai_comment, description)>>

\* What the publisher call of platform p is given for a feed dict
Payload(feed, p) == [text |-> MessageText(feed, p), link |-> LinkToUse(feed)]

NoPayload == [text |-> <<>>, link |-> "None"]

\* ---------------------------------------------------------- BlueskyPoster
MAX_POST_LENGTH == 299

\* The texts and links tried, by length
MaxTextLen == 303
MaxLinkLen == 301

Min(a, b) == IF a < b THEN a ELSE b
Max(a, b) == IF a > b THEN a ELSE b

\* len(text[:stop]) for a text of n characters: a negative stop counts from
\* the end
SliceLen(n, stop) == IF stop >= 0 THEN Min(n, stop) ELSE Max(n + stop, 0)

\* A text is kept by its length and by whether it ends in "..."
Text(n) == [len |-> n, dots |-> FALSE]

\* truncate_text(text, max_length)
truncate_text(text, max_length) ==
    LET max_len == IF max_length # 0 THEN max_length ELSE MAX_POST_LENGTH
    IN  IF text.len <= max_len THEN text
        ELSE [len |-> SliceLen(text.len, max_len - 3) + 3, dots |-> TRUE]

\* post_without_preview(text, link): the max_length it gives truncate_text,
\* what truncate_text returns, and the length of body
post_without_preview(text, link) ==
    LET link_len == link + 1
        available == MAX_POST_LENGTH - link_len
        max_length == IF available <= 0 THEN MAX_POST_LENGTH ELSE available
        cut == truncate_text(text, max_length)
    IN  [max_length |-> max_length, cut |-> cut,
         body |-> IF available <= 0 THEN cut.len ELSE cut.len + 1 + link]

\* No call of the poster
NoPost == [pc |-> "idle", text |-> Text(0), link |-> 0, max_length |-> 0,
           cut |-> Text(0), body |-> 0]

\* ------------------------------------------------------------------ state
VARIABLES
    now,             \* the wall clock, in ticks
    retention_days,  \* settings days_of_retention
    days_of_news,    \* settings days_of_news
    mute_from,       \* settings mute.from, a time of day
    mute_to,         \* settings mute.to
    execution_logs,  \* the rows of table execution_logs, in insertion order
    db_open,         \* the database connection is open
    pcW,             \* where _worker_loop stands
    mute_flag,       \* _worker_loop's mute_flag of the current cycle
    cycle_now,       \* the clock as the current cycle read it in a) to c)
    purged,          \* the links whose rows the current cycle's purge deleted
    sleep_time,      \* nonlocal sleep_time, in seconds
    feed_idx,        \* get_latest_rss: position in feeds_list
    rsss,            \* get_latest_rss: the list built so far
    new_items,       \* what get_latest_rss returned: None, or a list
    ready,           \* the event loop's queue of callbacks, oldest first
    gW,              \* the future of _worker_loop's gather
    pcP,             \* the _process_item task of each item
    gP,              \* the future of each _process_item's gather
    pcS,             \* the send_to_<platform> task of each item
    idxS,            \* its position in the bots list
    tasksS,          \* its tasks list: the bot positions appended
    gS,              \* the future of its gather
    pcR,             \* the run_in_thread task of each (item, platform, bot)
    call,            \* the publisher call of each (item, platform, bot)
    sent,            \* the text and link that call was given
    stop_reason,     \* why the loop ended
    bsky,            \* a post_without_preview call of the Bluesky poster
    recorded,        \* history: every row ever inserted into execution_logs
    cycle_log        \* what each feed iteration of the current poll decided

vars == <<now, retention_days, days_of_news, mute_from, mute_to, execution_logs,
          db_open, pcW, mute_flag, cycle_now, purged, sleep_time, feed_idx, rsss, new_items, ready,
          gW, pcP, gP, pcS, idxS, tasksS, gS, pcR, call, sent, stop_reason, cycle_log, bsky,
          recorded>>

settings == <<retention_days, days_of_news, mute_from, mute_to>>
cycleVars == <<mute_flag, cycle_now, purged>>
pollVars == <<feed_idx, rsss, new_items, cycle_log>>
taskVars == <<gW, pcP, gP, pcS, idxS, tasksS, gS, pcR, call, sent>>

ItemIdx == 1 .. Len(FeedRows)
BotIdx == 1 .. MaxBots

NoneItems == [isNone |-> TRUE, list |-> <<>>]
SomeItems(l) == [isNone |-> FALSE, list |-> l]

PendingGather(n) == [n |-> n, nfinished |-> 0, state |-> "pending"]
NoGather == [n |-> 0, nfinished |-> 0, state |-> "none"]

\* A callback of the event loop: kind, item, platform, bot position
H(k, i, p, b) == [k |-> k, i |-> i, p |-> p, b |-> b]

\* No task exists: the state between two dispatch steps
NoTasks ==
    /\ gW = NoGather
    /\ pcP = [i \in ItemIdx |-> "none"]
    /\ gP = [i \in ItemIdx |-> NoGather]
    /\ pcS = [i \in ItemIdx |-> [p \in PlatformSet |-> "none"]]
    /\ idxS = [i \in ItemIdx |-> [p \in PlatformSet |-> 0]]
    /\ tasksS = [i \in ItemIdx |-> [p \in PlatformSet |-> <<>>]]
    /\ gS = [i \in ItemIdx |-> [p \in PlatformSet |-> NoGather]]
    /\ pcR = [i \in ItemIdx |-> [p \in PlatformSet |-> [b \in BotIdx |-> "none"]]]
    /\ call = [i \in ItemIdx |-> [p \in PlatformSet |-> [b \in BotIdx |-> "none"]]]
    /\ sent = [i \in ItemIdx |-> [p \in PlatformSet |-> [b \in BotIdx |-> NoPayload]]]

\* The tasks of a finished dispatch step are gone
ResetTasks ==
    /\ gW' = NoGather
    /\ pcP' = [i \in ItemIdx |-> "none"]
    /\ gP' = [i \in ItemIdx |-> NoGather]
    /\ pcS' = [i \in ItemIdx |-> [p \in PlatformSet |-> "none"]]
    /\ idxS' = [i \in ItemIdx |-> [p \in PlatformSet |-> 0]]
    /\ tasksS' = [i \in ItemIdx |-> [p \in PlatformSet |-> <<>>]]
    /\ gS' = [i \in ItemIdx |-> [p \in PlatformSet |-> NoGather]]
    /\ pcR' = [i \in ItemIdx |-> [p \in PlatformSet |-> [b \in BotIdx |-> "none"]]]
    /\ call' = [i \in ItemIdx |-> [p \in PlatformSet |-> [b \in BotIdx |-> "none"]]]
    /\ sent' = [i \in ItemIdx |-> [p \in PlatformSet |-> [b \in BotIdx |-> NoPayload]]]

\* The mute windows tried: from = to, from < to, and from > to (past midnight)
MuteWindows == {<<0, 0>>, <<1, 2>>, <<TicksPerDay - 1, 0>>}

\* The state after main()'s set-up, at the top of _worker_loop's first cycle
Init ==
    /\ now = 0
    /\ retention_days \in 0 .. MaxRetentionDays
    /\ days_of_news \in 0 .. MaxDaysOfNews
    /\ \E w \in MuteWindows : mute_from = w[1] /\ mute_to = w[2]
    /\ execution_logs = <<>>
    /\ db_open = TRUE
    /\ pcW = "cycle"
    /\ mute_flag = FALSE
    /\ cycle_now = 0
    /\ purged = {}
    /\ sleep_time = InitialSleepTime
    /\ feed_idx = 0
    /\ rsss = <<>>
    /\ new_items = SomeItems(<<>>)
    /\ ready = <<>>
    /\ NoTasks
    /\ stop_reason = "none"
    /\ cycle_log = <<>>
    /\ bsky = NoPost
    /\ recorded = {}

\* ------------------------------------------------------------ _worker_loop
\* a) purge old execution logs, b) news cutoff (logged only), c) mute flag,
\* d) RSSFeeders(db, mutetime=mute_flag, retention_days=0)
CycleStart ==
    /\ pcW = "cycle"
    /\ execution_logs' = delete_old_execution_logs(
                            execution_logs, StartOfDay(DaysAgo(now, retention_days)))
    /\ purged' = {execution_logs[k].link : k \in 1 .. Len(execution_logs)}
                  \ {execution_logs'[k].link : k \in 1 .. Len(execution_logs')}
    /\ mute_flag' = is_mute_time(mute_from, mute_to, TimeOfDay(now))
    /\ cycle_now' = now
    /\ feed_idx' = 1
    /\ rsss' = <<>>
    /\ cycle_log' = <<>>
    /\ pcW' = "poll"
    /\ UNCHANGED <<now, settings, bsky, db_open, sleep_time, new_items, ready, taskVars,
                   stop_reason, recorded>>

\* A cutoff one day before the start of today
PollCutoff_wide(t) == StartOfDay(DaysAgo(t, PollRetentionDays + 1))

\* get_latest_rss's retdays
PollCutoff(t) == StartOfDay(DaysAgo(t, PollRetentionDays))

\* entry.get("id"): the feed's guid, a URL for some entries and not for others
EntryGuid(e) == IF e = "a" THEN "http://s" ELSE "s"

\* The dict get_latest_rss appends for entry e of feed row rss
NewItem(rss, e, comment) ==
    [rss |-> rss.rss, link |-> e, datetime |-> EntryDate(e), title |-> "T",
     description |-> "D", short_link |-> EntryGuid(e), ai_comment |-> comment]

\* rss.get("ai") and self.ai_key and self.gpt_model and not self.mutetime
WantsAI(rss, mutetime) == rss.ai /\ ~mutetime

\* One iteration of get_latest_rss's loop over feeds_list, for fetch result r
\* and AI result c
PollFeed(r, c) ==
    /\ pcW = "poll"
    /\ feed_idx <= Len(FeedRows)
    /\ LET rss == FeedRows[feed_idx]
           dated == {e \in r.entries : HasDate(e)}
           e == LatestEntry(dated)
           inlogs == link_exists_in_execution_logs(execution_logs, e)
           old == EntryDate(e) < PollCutoff(now)
           comment == IF WantsAI(rss, mute_flag) THEN c ELSE "None"
       IN  IF ~r.ok \/ r.entries = {} \/ dated = {}
           THEN \* return None
                /\ c = ""
                /\ new_items' = NoneItems
                /\ pcW' = "dispatch"
                /\ cycle_log' = Append(cycle_log,
                        [feed |-> feed_idx, outcome |-> "none", link |-> "", inlogs |-> FALSE])
                /\ UNCHANGED <<feed_idx, rsss>>
           ELSE IF inlogs \/ old
           THEN \* continue
                /\ c = ""
                /\ feed_idx' = feed_idx + 1
                /\ cycle_log' = Append(cycle_log,
                        [feed |-> feed_idx, outcome |-> IF inlogs THEN "seen" ELSE "old",
                         link |-> e, inlogs |-> inlogs])
                /\ UNCHANGED <<rsss, new_items, pcW>>
           ELSE /\ (WantsAI(rss, mute_flag) \/ c = "")
                /\ rsss' = Append(rsss, NewItem(rss, e, comment))
                /\ feed_idx' = feed_idx + 1
                /\ cycle_log' = Append(cycle_log,
                        [feed |-> feed_idx, outcome |-> "new", link |-> e, inlogs |-> FALSE])
                /\ UNCHANGED <<new_items, pcW>>
    /\ UNCHANGED <<now, settings, bsky, execution_logs, recorded, db_open, cycleVars, sleep_time,
                   ready, taskVars, stop_reason>>

\* get_latest_rss: return rsss
PollReturn ==
    /\ pcW = "poll"
    /\ feed_idx > Len(FeedRows)
    /\ new_items' = SomeItems(rsss)
    /\ pcW' = "dispatch"
    /\ UNCHANGED <<now, settings, bsky, execution_logs, recorded, db_open, cycleVars, sleep_time,
                   feed_idx, rsss, cycle_log, ready, taskVars, stop_reason>>

\* ---------------------------------------------------------------- senders
\* feed.get(<platform>, {}).get("bots", [])
Bots(feed, p) == Get(feed, p, <<>>)

\* account.get("mute", False)
Mute(acc) == Get(acc, "mute", FALSE)

\* if mute and ismute: skip
SkipMuted(acc, ismute) == Mute(acc) /\ ismute

\* send_to_linkedin: if sleep_time > 30, await asyncio.sleep(rnd) before the
\* bot's coroutine is appended
BacksOff(p, st) == p = "linkedin" /\ st > BackoffThreshold

Range(s) == {s[k] : k \in 1 .. Len(s)}

\* The for loop of send_to_telegram / send_to_linkedin / send_to_bluesky from
\* bot position idx up to its next suspension: find_bot returning None makes
\* .get raise ("raise"), a back-off suspends ("sleep"), else the loop ends.
RECURSIVE SenderLoop(_, _, _, _, _, _, _, _)
SenderLoop(feed, p, ismute, st, idx, tasks, muted, resumed) ==
    LET bots == Bots(feed, p)
    IN  IF idx > Len(bots)
        THEN [status |-> "end", idx |-> idx, tasks |-> tasks, muted |-> muted]
        ELSE LET k == find_bot(Accounts, p, bots[idx])
             IN  IF k = 0
                 THEN [status |-> "raise", idx |-> idx, tasks |-> tasks, muted |-> muted]
                 ELSE IF SkipMuted(Accounts[p][k], ismute)
                 THEN SenderLoop(feed, p, ismute, st, idx + 1, tasks,
                                 muted \cup {idx}, FALSE)
                 ELSE IF BacksOff(p, st) /\ ~resumed
                 THEN [status |-> "sleep", idx |-> idx, tasks |-> tasks, muted |-> muted]
                 ELSE SenderLoop(feed, p, ismute, st, idx + 1, Append(tasks, idx),
                                 muted, FALSE)

\* What the publisher call can come to: send_message returns the API's answer
\* or {"ok": False}; post_feed and post_link return or raise
PublishOutcomes(p) == IF p = "telegram" THEN {"ok", "fail"} ELSE {"ok", "raise"}

\* A gather that is done as soon as one child is
GatherChild_first(g, raised) ==
    IF g.state # "pending" THEN g
    ELSE [g EXCEPT !.nfinished = @ + 1,
                   !.state = IF raised THEN "exception" ELSE "result"]

\* A gather that takes a child's exception for a result
GatherChild_quiet(g, raised) ==
    IF g.state # "pending" THEN g
    ELSE IF g.nfinished + 1 = g.n THEN [g EXCEPT !.nfinished = @ + 1, !.state = "result"]
    ELSE [g EXCEPT !.nfinished = @ + 1]

\* asyncio.gather without return_exceptions, on one child finishing: the first
\* exception completes the outer future at once, the last result completes it
GatherChild(g, raised) ==
    IF g.state # "pending" THEN g
    ELSE IF raised THEN [g EXCEPT !.state = "exception"]
    ELSE IF g.nfinished + 1 = g.n THEN [g EXCEPT !.nfinished = @ + 1, !.state = "result"]
    ELSE [g EXCEPT !.nfinished = @ + 1]

Completes(g, raised) == g.state = "pending" /\ GatherChild(g, raised).state # "pending"

\* asyncio.run's clean-up when the main task ends: every unfinished task is
\* cancelled; calls already in an executor thread keep running
Cancelled(pc) == IF pc \in {"none", "done", "raised", "muted", "unresolved"} THEN pc
                 ELSE "cancelled"

CancelAll ==
    /\ pcP' = [i \in ItemIdx |-> Cancelled(pcP[i])]
    /\ pcS' = [i \in ItemIdx |-> [p \in PlatformSet |-> Cancelled(pcS[i][p])]]
    /\ pcR' = [i \in ItemIdx |-> [p \in PlatformSet |->
                    [b \in BotIdx |-> Cancelled(pcR[i][p][b])]]]
    /\ ready' = <<>>
    /\ pcW' = "closing"
    /\ UNCHANGED <<gW, gP, idxS, tasksS, gS, call, sent>>

\* e) tasks = [create_task(_process_item(it)) for it in new_items];
\*    await gather(*tasks).  new_items None raises TypeError; gather of no
\*    task is done at once and does not suspend; a cancellation pending from
\*    a SIGINT is delivered when the loop suspends, before any task has run.
DispatchStart ==
    /\ pcW = "dispatch"
    /\ IF new_items.isNone
       THEN /\ stop_reason' = "fatal"
            /\ CancelAll
       ELSE IF new_items.list = <<>>
       THEN /\ pcW' = "record"
            /\ UNCHANGED <<ready, taskVars, stop_reason>>
       ELSE IF stop_reason = "signalled"
       THEN /\ stop_reason' = "interrupt"
            /\ CancelAll
       ELSE /\ pcP' = [i \in ItemIdx |-> IF i <= Len(new_items.list) THEN "new" ELSE "none"]
            /\ gW' = PendingGather(Len(new_items.list))
            /\ ready' = [i \in 1 .. Len(new_items.list) |-> H("P", i, "-", 0)]
            /\ pcW' = "await"
            /\ UNCHANGED <<gP, pcS, idxS, tasksS, gS, pcR, call, sent, stop_reason>>
    /\ UNCHANGED <<now, settings, bsky, execution_logs, recorded, db_open, cycleVars, sleep_time,
                   pollVars>>

\* A step of a _process_item task: build the sender, gather the send_to_*
\* coroutines of the enabled platforms; or resume when that gather is done
RunProcessItem ==
    /\ pcW = "await" /\ ready # <<>> /\ Head(ready).k = "P"
    /\ LET i == Head(ready).i
           coros == SelectSeq(Platforms, LAMBDA p : EnabledBots[p])
       IN  IF pcP[i] = "new" /\ coros # <<>>
           THEN /\ pcP' = [pcP EXCEPT ![i] = "await"]
                /\ gP' = [gP EXCEPT ![i] = PendingGather(Len(coros))]
                /\ pcS' = [pcS EXCEPT ![i] =
                              [p \in PlatformSet |-> IF EnabledBots[p] THEN "new" ELSE "none"]]
                /\ ready' = Tail(ready) \o [k \in 1 .. Len(coros) |-> H("S", i, coros[k], 0)]
           ELSE /\ pcP' = [pcP EXCEPT ![i] =
                              IF gP[i].state = "exception" THEN "raised" ELSE "done"]
                /\ ready' = Append(Tail(ready), H("GW", i, "-", 0))
                /\ UNCHANGED <<gP, pcS>>
    /\ UNCHANGED <<now, settings, bsky, execution_logs, recorded, db_open, pcW, cycleVars, sleep_time,
                   pollVars, gW, idxS, tasksS, gS, pcR, call, sent, stop_reason>>

\* A step of a send_to_<platform> task
RunSendTo ==
    /\ pcW = "await" /\ ready # <<>> /\ Head(ready).k = "S"
    /\ LET i == Head(ready).i
           p == Head(ready).p
           r == SenderLoop(new_items.list[i], p, mute_flag, sleep_time,
                           IF pcS[i][p] = "new" THEN 1 ELSE idxS[i][p],
                           tasksS[i][p], {}, pcS[i][p] = "wake")
           go == r.status = "end" /\ r.tasks # <<>>
           mark == [b \in BotIdx |->
                       IF b \in Range(r.tasks) THEN (IF go THEN "ready" ELSE "coro")
                       ELSE IF b \in r.muted THEN "muted"
                       ELSE IF r.status = "raise" /\ b = r.idx THEN "unresolved"
                       ELSE pcR[i][p][b]]
       IN  IF pcS[i][p] = "await"
           THEN \* its gather is done
                /\ pcS' = [pcS EXCEPT ![i][p] =
                              IF gS[i][p].state = "exception" THEN "raised" ELSE "done"]
                /\ ready' = Append(Tail(ready), H("GP", i, p, 0))
                /\ UNCHANGED <<idxS, tasksS, gS, pcR>>
           ELSE /\ idxS' = [idxS EXCEPT ![i][p] = r.idx]
                /\ tasksS' = [tasksS EXCEPT ![i][p] = r.tasks]
                /\ pcR' = [pcR EXCEPT ![i][p] = mark]
                /\ IF r.status = "raise"
                   THEN /\ pcS' = [pcS EXCEPT ![i][p] = "raised"]
                        /\ ready' = Append(Tail(ready), H("GP", i, p, 0))
                        /\ gS' = gS
                   ELSE IF r.status = "sleep"
                   THEN /\ pcS' = [pcS EXCEPT ![i][p] = "sleep"]
                        /\ ready' = Tail(ready)
                        /\ gS' = gS
                   ELSE IF r.tasks = <<>>
                   THEN /\ pcS' = [pcS EXCEPT ![i][p] = "done"]
                        /\ ready' = Append(Tail(ready), H("GP", i, p, 0))
                        /\ gS' = gS
                   ELSE \* await asyncio.gather(*tasks)
                        /\ pcS' = [pcS EXCEPT ![i][p] = "await"]
                        /\ gS' = [gS EXCEPT ![i][p] = PendingGather(Len(r.tasks))]
                        /\ ready' = Tail(ready) \o
                                [k \in 1 .. Len(r.tasks) |-> H("R", i, p, r.tasks[k])]
    /\ UNCHANGED <<now, settings, bsky, execution_logs, recorded, db_open, pcW, cycleVars, sleep_time,
                   pollVars, gW, pcP, gP, call, sent, stop_reason>>

\* A step of a run_in_thread task: hand the publisher call to the executor,
\* or resume with the call's result or exception
RunInThread ==
    /\ pcW = "await" /\ ready # <<>> /\ Head(ready).k = "R"
    /\ LET i == Head(ready).i
           p == Head(ready).p
           b == Head(ready).b
       IN  IF pcR[i][p][b] = "ready"
           THEN /\ pcR' = [pcR EXCEPT ![i][p][b] = "thread"]
                /\ call' = [call EXCEPT ![i][p][b] = "running"]
                /\ sent' = [sent EXCEPT ![i][p][b] = Payload(new_items.list[i], p)]
                /\ ready' = Tail(ready)
           ELSE /\ pcR' = [pcR EXCEPT ![i][p][b] =
                              IF call[i][p][b] = "raise" THEN "raised" ELSE "done"]
                /\ ready' = Append(Tail(ready), H("GS", i, p, b))
                /\ UNCHANGED <<call, sent>>
    /\ UNCHANGED <<now, settings, bsky, execution_logs, recorded, db_open, pcW, cycleVars, sleep_time,
                   pollVars, gW, pcP, gP, pcS, idxS, tasksS, gS, stop_reason>>

\* A publisher call that writes a row of its own from its executor thread
ThreadDone_logs(i, p, b, o) ==
    /\ pcW \in {"await", "closing"}
    /\ call[i][p][b] = "running"
    /\ o \in PublishOutcomes(p)
    /\ call' = [call EXCEPT ![i][p][b] = o]
    /\ execution_logs' = Append(execution_logs, InsertRow(new_items.list[i], now))
    /\ ready' = IF pcW = "await" THEN Append(ready, H("F", i, p, b)) ELSE ready
    /\ UNCHANGED <<now, settings, bsky, recorded, db_open, pcW, cycleVars, sleep_time,
                   pollVars, gW, pcP, gP, pcS, idxS, tasksS, gS, pcR, sent, stop_reason>>

\* A publisher call ends in its executor thread; while the loop runs, the
\* thread hands the result over with call_soon_threadsafe
ThreadDone(i, p, b, o) ==
    /\ pcW \in {"await", "closing"}
    /\ call[i][p][b] = "running"
    /\ o \in PublishOutcomes(p)
    /\ call' = [call EXCEPT ![i][p][b] = o]
    /\ ready' = IF pcW = "await" THEN Append(ready, H("F", i, p, b)) ELSE ready
    /\ UNCHANGED <<now, settings, bsky, execution_logs, recorded, db_open, pcW, cycleVars, sleep_time,
                   pollVars, gW, pcP, gP, pcS, idxS, tasksS, gS, pcR, sent, stop_reason>>

\* The executor future's result reaches the asyncio future: wake the task
FutureDone ==
    /\ pcW = "await" /\ ready # <<>> /\ Head(ready).k = "F"
    /\ ready' = Append(Tail(ready), H("R", Head(ready).i, Head(ready).p, Head(ready).b))
    /\ UNCHANGED <<now, settings, bsky, execution_logs, recorded, db_open, pcW, cycleVars, sleep_time,
                   pollVars, taskVars, stop_reason>>

\* The back-off timer of a send_to_linkedin task expires
TimerFire(i, p) ==
    /\ pcW = "await"
    /\ pcS[i][p] = "sleep"
    /\ pcS' = [pcS EXCEPT ![i][p] = "timer"]
    /\ ready' = Append(ready, H("T", i, p, 0))
    /\ UNCHANGED <<now, settings, bsky, execution_logs, recorded, db_open, pcW, cycleVars, sleep_time,
                   pollVars, gW, pcP, gP, idxS, tasksS, gS, pcR, call, sent, stop_reason>>

\* asyncio.sleep's future is set: wake the sleeping task
TimerDone ==
    /\ pcW = "await" /\ ready # <<>> /\ Head(ready).k = "T"
    /\ pcS' = [pcS EXCEPT ![Head(ready).i][Head(ready).p] = "wake"]
    /\ ready' = Append(Tail(ready), H("S", Head(ready).i, Head(ready).p, 0))
    /\ UNCHANGED <<now, settings, bsky, execution_logs, recorded, db_open, pcW, cycleVars, sleep_time,
                   pollVars, gW, pcP, gP, idxS, tasksS, gS, pcR, call, sent, stop_reason>>

\* send_to_<platform>'s gather hears of one finished run_in_thread task
GatherSendDone ==
    /\ pcW = "await" /\ ready # <<>> /\ Head(ready).k = "GS"
    /\ LET i == Head(ready).i
           p == Head(ready).p
           raised == pcR[i][p][Head(ready).b] = "raised"
       IN  /\ gS' = [gS EXCEPT ![i][p] = GatherChild(gS[i][p], raised)]
           /\ ready' = IF Completes(gS[i][p], raised)
                       THEN Append(Tail(ready), H("S", i, p, 0)) ELSE Tail(ready)
    /\ UNCHANGED <<now, settings, bsky, execution_logs, recorded, db_open, pcW, cycleVars, sleep_time,
                   pollVars, gW, pcP, gP, pcS, idxS, tasksS, pcR, call, sent, stop_reason>>

\* _process_item's gather hears of one finished send_to_<platform> task
GatherItemDone ==
    /\ pcW = "await" /\ ready # <<>> /\ Head(ready).k = "GP"
    /\ LET i == Head(ready).i
           raised == pcS[i][Head(ready).p] = "raised"
       IN  /\ gP' = [gP EXCEPT ![i] = GatherChild(gP[i], raised)]
           /\ ready' = IF Completes(gP[i], raised)
                       THEN Append(Tail(ready), H("P", i, "-", 0)) ELSE Tail(ready)
    /\ UNCHANGED <<now, settings, bsky, execution_logs, recorded, db_open, pcW, cycleVars, sleep_time,
                   pollVars, gW, pcP, pcS, idxS, tasksS, gS, pcR, call, sent, stop_reason>>

\* _worker_loop's gather hears of one finished _process_item task
GatherLoopDone ==
    /\ pcW = "await" /\ ready # <<>> /\ Head(ready).k = "GW"
    /\ LET raised == pcP[Head(ready).i] = "raised"
       IN  /\ gW' = GatherChild(gW, raised)
           /\ ready' = IF Completes(gW, raised)
                       THEN Append(Tail(ready), H("W", 0, "-", 0)) ELSE Tail(ready)
    /\ UNCHANGED <<now, settings, bsky, execution_logs, recorded, db_open, pcW, cycleVars, sleep_time,
                   pollVars, pcP, gP, pcS, idxS, tasksS, gS, pcR, call, sent, stop_reason>>

\* _worker_loop resumes from await gather(*tasks): an exception of any item
\* leaves the loop (except Exception: "Fatal error"), else it goes on to f)
WorkerWake ==
    /\ pcW = "await" /\ ready # <<>> /\ Head(ready).k = "W"
    /\ IF gW.state = "exception"
       THEN /\ stop_reason' = "fatal"
            /\ CancelAll
       ELSE /\ pcW' = "record"
            /\ ready' = Tail(ready)
            /\ UNCHANGED <<taskVars, stop_reason>>
    /\ UNCHANGED <<now, settings, bsky, execution_logs, recorded, db_open, cycleVars, sleep_time,
                   pollVars>>

\* A sleep time that lets a negative duration through
ClampSleep_neg(st) == st

\* if sleep_time < 0: warning, sleep_time = 0.0
ClampSleep(st) == IF st < 0 THEN 0 ELSE st

\* A record step that schedules the next run and inserts nothing
RecordAndSchedule_norecord(lag) ==
    /\ pcW = "record"
    /\ now + lag <= MaxTime
    /\ now' = now + lag
    /\ sleep_time' = ClampSleep((CronNext(now) - (now + lag)) * SecPerTick)
    /\ pcW' = "sleep"
    /\ UNCHANGED <<settings, bsky, execution_logs, recorded, db_open, cycleVars, pollVars,
                   ready, taskVars, stop_reason>>

\* f) insert_execution_log_from_json(new_items); g) next run from the cron
\* expression, sleep_time from a second reading of the clock, clamped at 0
RecordAndSchedule(lag) ==
    /\ pcW = "record"
    /\ now + lag <= MaxTime
    /\ execution_logs' = insert_execution_log_from_json(execution_logs, new_items.list, now)
    /\ recorded' = recorded \cup {InsertRow(new_items.list[k], now) :
                                      k \in 1 .. Len(new_items.list)}
    /\ now' = now + lag
    /\ LET next_run == CronNext(now)
           st == (next_run - (now + lag)) * SecPerTick
       IN  sleep_time' = ClampSleep(st)
    /\ pcW' = "sleep"
    /\ UNCHANGED <<settings, bsky, db_open, cycleVars, pollVars, ready, taskVars, stop_reason>>

\* await asyncio.sleep(sleep_time) returns; back to the top of while True
Wake ==
    /\ pcW = "sleep"
    /\ stop_reason = "none"
    /\ now + sleep_time \div SecPerTick <= MaxTime
    /\ now' = now + sleep_time \div SecPerTick
    /\ pcW' = "cycle"
    /\ ready' = <<>>
    /\ ResetTasks
    /\ UNCHANGED <<settings, bsky, execution_logs, recorded, db_open, cycleVars, sleep_time, pollVars,
                   stop_reason>>

\* Time passes while the loop waits for a thread or a timer
Tick ==
    /\ pcW = "await" /\ ready = <<>>
    /\ now < MaxTime
    /\ now' = now + 1
    /\ UNCHANGED <<settings, bsky, execution_logs, recorded, db_open, pcW, cycleVars, sleep_time,
                   pollVars, ready, taskVars, stop_reason>>

\* SIGINT while _worker_loop runs between two awaits: asyncio.run's handler
\* cancels the main task, which goes on running up to its next suspension
Signal ==
    /\ pcW \in {"cycle", "poll", "dispatch", "record"}
    /\ stop_reason = "none"
    /\ stop_reason' = "signalled"
    /\ UNCHANGED <<now, settings, bsky, execution_logs, recorded, db_open, pcW, cycleVars, sleep_time,
                   pollVars, ready, taskVars>>

\* SIGINT while _worker_loop is suspended, or a pending cancellation reaching
\* its suspension: CancelledError in the loop, KeyboardInterrupt in main
Interrupt ==
    /\ pcW \in {"await", "sleep"}
    /\ stop_reason' = "interrupt"
    /\ CancelAll
    /\ UNCHANGED <<now, settings, bsky, execution_logs, recorded, db_open, cycleVars, sleep_time,
                   pollVars>>

\* asyncio.run has waited for the executor's threads; finally: db.close()
Stop ==
    /\ pcW = "closing"
    /\ \A i \in ItemIdx, p \in PlatformSet, b \in BotIdx : call[i][p][b] # "running"
    /\ db_open' = FALSE
    /\ pcW' = "stopped"
    /\ UNCHANGED <<now, settings, bsky, execution_logs, recorded, cycleVars, sleep_time, pollVars,
                   ready, taskVars, stop_reason>>

\* --------------------------------------------------------- specifications
\* The loop of main(): the dicts get_latest_rss returns carry no platform
\* key, so no send_to_* task of this loop ever has a bot to send to
Next ==
    \/ CycleStart
    \/ \E r \in FetchResults, c \in AIResults : PollFeed(r, c)
    \/ PollReturn
    \/ DispatchStart
    \/ RunProcessItem
    \/ RunSendTo
    \/ GatherItemDone
    \/ GatherLoopDone
    \/ WorkerWake
    \/ \E lag \in 0 .. MaxLag : RecordAndSchedule(lag)
    \/ Wake
    \/ Signal
    \/ Interrupt
    \/ Stop

Spec == Init /\ [][Next]_vars

\* SocialSender driven with feed dicts that do carry "telegram", "linkedin"
\* and "bluesky" bots (the shape its docstrings and its test_feed give): steps
\* e) to g) of a cycle, entered with one such item
SenderBindings ==
    { [telegram |-> <<"t1", "t2">>, bluesky |-> <<"b1">>],
      [linkedin |-> <<"l1">>, bluesky |-> <<"b2">>],
      [telegram |-> <<"t1">>, linkedin |-> <<"l1">>, bluesky |-> <<"b2">>],
      [telegram |-> <<"ghost", "t1">>, bluesky |-> <<"b2">>],
      [telegram |-> <<"t1">>, linkedin |-> <<"l1", "l2">>],
      [bluesky |-> <<"b1", "b2">>] }

SenderFeeds == {NewItem(FeedRows[1], "a", "None") @@ bind : bind \in SenderBindings}

SenderWindows == MuteWindows

\* The dispatch is entered at the first tick of the last day, or late in it
SenderTimes == {MaxTime - TicksPerDay + 1, MaxTime - 1}

InitSender ==
    /\ now \in SenderTimes
    /\ retention_days = 0
    /\ days_of_news = 0
    /\ \E w \in SenderWindows : mute_from = w[1] /\ mute_to = w[2]
    /\ execution_logs = <<>>
    /\ db_open = TRUE
    /\ pcW = "dispatch"
    /\ mute_flag = is_mute_time(mute_from, mute_to, TimeOfDay(now))
    /\ cycle_now = now
    /\ purged = {}
    /\ sleep_time \in {0, InitialSleepTime}
    /\ feed_idx = Len(FeedRows) + 1
    /\ \E feed \in SenderFeeds :
          /\ rsss = <<feed>>
          /\ new_items = SomeItems(<<feed>>)
    /\ ready = <<>>
    /\ NoTasks
    /\ stop_reason = "none"
    /\ cycle_log = <<>>
    /\ bsky = NoPost
    /\ recorded = {}

NextSender ==
    \/ DispatchStart
    \/ RunProcessItem
    \/ RunSendTo
    \/ GatherItemDone
    \/ GatherLoopDone
    \/ WorkerWake
    \/ \E lag \in 0 .. MaxLag : RecordAndSchedule(lag)
    \/ Interrupt
    \/ Stop
    \/ RunInThread
    \/ \E i \in ItemIdx, p \in PlatformSet, b \in BotIdx, o \in {"ok", "fail", "raise"} :
          ThreadDone(i, p, b, o)
    \/ FutureDone
    \/ \E i \in ItemIdx, p \in PlatformSet : TimerFire(i, p)
    \/ TimerDone
    \/ GatherSendDone
    \/ Tick

SpecSender == InitSender /\ [][NextSender]_vars

\* The values a feed's guid takes: an http URL, an https URL in capitals,
\* a URL of another scheme, a bare identifier, and no guid at all
ShortLinks == {"http://s", "HTTPS://s", "ftp://s", "s", "None"}

\* The feed dicts a dispatch is entered with: those get_latest_rss builds
\* (no AI comment, an empty one, a generated one) and the shape the senders
\* document, which names the comment "ai-comment"
PayloadFeeds ==
    LET bind == [telegram |-> <<"t1">>, linkedin |-> <<"l1">>, bluesky |-> <<"b2">>]
        polled == {NewItem(FeedRows[1], "a", c) : c \in {"None", "", "cmt"}}
        documented == {("ai-comment" :> "cmt") @@ NewItem(FeedRows[1], "a", "None")}
    IN  {("short_link" :> s) @@ item @@ bind : s \in ShortLinks, item \in polled \cup documented}

InitPayload ==
    /\ now = MaxTime - 1
    /\ retention_days = 0
    /\ days_of_news = 0
    /\ mute_from = 0
    /\ mute_to = 0
    /\ execution_logs = <<>>
    /\ db_open = TRUE
    /\ pcW = "dispatch"
    /\ mute_flag = is_mute_time(mute_from, mute_to, TimeOfDay(now))
    /\ cycle_now = now
    /\ purged = {}
    /\ sleep_time = InitialSleepTime
    /\ feed_idx = Len(FeedRows) + 1
    /\ \E feed \in PayloadFeeds :
          /\ rsss = <<feed>>
          /\ new_items = SomeItems(<<feed>>)
    /\ ready = <<>>
    /\ NoTasks
    /\ stop_reason = "none"
    /\ cycle_log = <<>>
    /\ bsky = NoPost
    /\ recorded = {}

SpecPayload == InitPayload /\ [][NextSender]_vars

\* main() with a settings file whose mute window need not be two HH:MM
\* strings: MuteTimeChecker.__init__ stores whatever it is given
ConfiguredWindows == {<<1, 2>>, <<InvalidTime, 0>>, <<1, InvalidTime>>}

InitMute ==
    /\ now = 0
    /\ retention_days \in 0 .. MaxRetentionDays
    /\ days_of_news \in 0 .. MaxDaysOfNews
    /\ \E w \in ConfiguredWindows : mute_from = w[1] /\ mute_to = w[2]
    /\ execution_logs = <<>>
    /\ db_open = TRUE
    /\ pcW = "cycle"
    /\ mute_flag = FALSE
    /\ cycle_now = 0
    /\ purged = {}
    /\ sleep_time = InitialSleepTime
    /\ feed_idx = 0
    /\ rsss = <<>>
    /\ new_items = SomeItems(<<>>)
    /\ ready = <<>>
    /\ NoTasks
    /\ stop_reason = "none"
    /\ cycle_log = <<>>
    /\ bsky = NoPost
    /\ recorded = {}

SpecMute == InitMute /\ [][Next]_vars

\* Steps e) to g) entered with two items, one bound to a Telegram bot and one
\* to a LinkedIn bot
TwoItems ==
    << NewItem(FeedRows[1], "a", "None") @@ [telegram |-> <<"t1">>],
       NewItem(FeedRows[2], "b", "None") @@ [linkedin |-> <<"l1">>] >>

InitTwo ==
    /\ now \in SenderTimes
    /\ retention_days = 0
    /\ days_of_news = 0
    /\ mute_from = 0
    /\ mute_to = 0
    /\ execution_logs = <<>>
    /\ db_open = TRUE
    /\ pcW = "dispatch"
    /\ mute_flag = is_mute_time(mute_from, mute_to, TimeOfDay(now))
    /\ cycle_now = now
    /\ purged = {}
    /\ sleep_time \in {0, InitialSleepTime}
    /\ feed_idx = Len(FeedRows) + 1
    /\ rsss = TwoItems
    /\ new_items = SomeItems(TwoItems)
    /\ ready = <<>>
    /\ NoTasks
    /\ stop_reason = "none"
    /\ cycle_log = <<>>
    /\ bsky = NoPost
    /\ recorded = {}

SpecTwo == InitTwo /\ [][NextSender]_vars

\* The whole loop, entered at step e) of a cycle whose two items carry bots:
\* that dispatch, its record and sleep, and the cycles that follow
NextCycles ==
    \/ CycleStart
    \/ \E r \in FetchResults, c \in AIResults : PollFeed(r, c)
    \/ PollReturn
    \/ DispatchStart
    \/ RunProcessItem
    \/ RunSendTo
    \/ GatherItemDone
    \/ GatherLoopDone
    \/ WorkerWake
    \/ \E lag \in 0 .. MaxLag : RecordAndSchedule(lag)
    \/ Wake
    \/ Signal
    \/ Interrupt
    \/ Stop
    \/ RunInThread
    \/ \E i \in ItemIdx, p \in PlatformSet, b \in BotIdx, o \in {"ok", "fail", "raise"} :
          ThreadDone(i, p, b, o)
    \/ FutureDone
    \/ \E i \in ItemIdx, p \in PlatformSet : TimerFire(i, p)
    \/ TimerDone
    \/ GatherSendDone
    \/ Tick

SpecCycles == InitTwo /\ [][NextCycles]_vars

\* BlueskyPoster.post_without_preview on its own, for every length of text
\* and of link
InitPost ==
    /\ now = 0
    /\ retention_days = 0
    /\ days_of_news = 0
    /\ mute_from = 0
    /\ mute_to = 0
    /\ execution_logs = <<>>
    /\ db_open = TRUE
    /\ pcW = "stopped"
    /\ mute_flag = FALSE
    /\ cycle_now = 0
    /\ purged = {}
    /\ sleep_time = 0
    /\ feed_idx = 0
    /\ rsss = <<>>
    /\ new_items = SomeItems(<<>>)
    /\ ready = <<>>
    /\ NoTasks
    /\ stop_reason = "none"
    /\ cycle_log = <<>>
    /\ recorded = {}
    /\ \E n \in 0 .. MaxTextLen, l \in 0 .. MaxLinkLen :
          bsky = [NoPost EXCEPT !.pc = "call", !.text = Text(n), !.link = l]

PostWithoutPreview ==
    /\ bsky.pc = "call"
    /\ LET r == post_without_preview(bsky.text, bsky.link)
       IN  bsky' = [bsky EXCEPT !.pc = "posted", !.max_length = r.max_length,
                                !.cut = r.cut, !.body = r.body]
    /\ UNCHANGED <<now, settings, execution_logs, recorded, db_open, pcW, cycleVars, sleep_time,
                   pollVars, ready, taskVars, stop_reason>>

SpecPost == InitPost /\ [][PostWithoutPreview]_vars

\* ------------------------------------------------------------------ claims
\* The dispatch step of the cycle is over: the loop went on to f), or left
DispatchOver == pcW \in {"record", "sleep", "closing", "stopped"} /\ ~new_items.isNone

\* Bot position b of platform p is a target of item i
IsTarget(i, p, b) ==
    /\ i <= Len(new_items.list)
    /\ b <= Len(Bots(new_items.list[i], p))

Targets == {t \in ItemIdx \X PlatformSet \X BotIdx : IsTarget(t[1], t[2], t[3])}

\* The account a target names, 0 when no account has that name
AccountOf(t) == find_bot(Accounts, t[2], Bots(new_items.list[t[1]], t[2])[t[3]])

\* The publisher call of target t was issued and ran to its end
CallCompleted(t) == call[t[1]][t[2]][t[3]] \in {"ok", "fail", "raise"}

\* The publisher call of target t raised or answered with a failure
CallFailed(t) == call[t[1]][t[2]][t[3]] \in {"fail", "raise"}

\* The quiet window as the specification words it: never when from = to,
\* [from, to] when from < to, wrapping past midnight when from > to
InQuietWindow(from, to, t) ==
    /\ from # to
    /\ IF from < to THEN from <= t /\ t <= to ELSE t >= from \/ t <= to

\* C1: when the dispatch of an item is over without a shutdown signal, every
\* bot resolves and one target's publish call failed or raised, then every
\* other target that was not skipped as muted has had its publish call issued
\* and run to completion.
C1_FailureIsolated ==
    (/\ DispatchOver
     /\ stop_reason # "interrupt"
     /\ \A t \in Targets : AccountOf(t) # 0
     /\ \E t \in Targets : CallFailed(t))
    => \A t \in Targets : pcR[t[1]][t[2]][t[3]] # "muted" => CallCompleted(t)

\* The rows of execution_logs that hold link l
RowsOf(l) == {k \in 1 .. Len(execution_logs) : execution_logs[k].link = l}

\* C2: once the dispatch step of a cycle has run for the items the poll
\* returned, every bot resolves and no shutdown signal came, the link of each
\* of those items is in execution_logs exactly once, whatever the publish
\* calls came to.
C2_RecordedOnce ==
    (/\ pcW \in {"sleep", "stopped"}
     /\ ~new_items.isNone
     /\ stop_reason # "interrupt"
     /\ \A t \in Targets : AccountOf(t) # 0)
    => \A k \in 1 .. Len(new_items.list) :
          Cardinality(RowsOf(new_items.list[k].link)) = 1

\* C3: the polls of one cycle that find the same latest link add at most one
\* new item for that link.
C3_OneItemPerLink ==
    \A l \in EntryIds : Cardinality({k \in 1 .. Len(rsss) : rsss[k].link = l}) <= 1

\* C4: a bot name that matches no account is skipped: its send_to_<platform>
\* task does not raise, and the loop does not end on it.
C4_UnresolvedSkipped ==
    \A t \in Targets :
        pcR[t[1]][t[2]][t[3]] = "unresolved"
        => pcS[t[1]][t[2]] # "raised" /\ stop_reason # "fatal"

\* C5: when the poll has returned, every feed whose latest entry the poll took
\* as new has its item in the returned list, whatever the other feeds'
\* fetches came to, and the poll returned a list.
C5_FeedIsolated ==
    pcW = "dispatch"
    => /\ ~new_items.isNone
       /\ \A k \in 1 .. Len(cycle_log) :
             cycle_log[k].outcome = "new"
             => \E j \in 1 .. Len(new_items.list) :
                   /\ new_items.list[j].link = cycle_log[k].link
                   /\ new_items.list[j].rss = FeedRows[cycle_log[k].feed].rss

\* C6: the loop ends only on a shutdown signal.
C6_StopsOnlyOnSignal == pcW \in {"closing", "stopped"} => stop_reason = "interrupt"

\* C7: a target is skipped as muted exactly when its account's mute flag is
\* set and the cycle's time lies inside the quiet window.
C7_MutedInsideWindow ==
    \A t \in Targets :
        pcR[t[1]][t[2]][t[3]] \in {"muted", "coro", "ready", "thread", "done", "raised"}
        => (pcR[t[1]][t[2]][t[3]] = "muted"
            <=> /\ Mute(Accounts[t[2]][AccountOf(t)])
                /\ InQuietWindow(mute_from, mute_to, TimeOfDay(cycle_now)))

\* C8: the mute flag a cycle computes is true exactly when the time of day
\* lies inside the quiet window, and false whenever from = to.
C8_FlagIsInsideWindow ==
    pcW \in {"poll", "dispatch", "await", "record"}
    => (mute_flag <=> InQuietWindow(mute_from, mute_to, TimeOfDay(cycle_now)))

\* The cutoff of the news window: start of the day days_of_news days back
NewsCutoff == StartOfDay(DaysAgo(cycle_now, days_of_news))

\* C9: a feed's latest entry published before the news cutoff is not taken as
\* new, and one published at or after it whose link is not in execution_logs
\* is taken as new.
C9_CutoffIsDaysOfNews ==
    \A k \in 1 .. Len(cycle_log) :
        cycle_log[k].link # ""
        => /\ EntryDate(cycle_log[k].link) < NewsCutoff => cycle_log[k].outcome # "new"
           /\ (EntryDate(cycle_log[k].link) >= NewsCutoff /\ ~cycle_log[k].inlogs)
                 => cycle_log[k].outcome = "new"

\* C10: a link whose row the purge of this cycle deleted, still the latest
\* entry of a feed and inside the news window, is taken as new by the poll of
\* this cycle.
C10_PurgedLinkReturns ==
    \A k \in 1 .. Len(cycle_log) :
        (/\ cycle_log[k].link \in purged
         /\ EntryDate(cycle_log[k].link) >= NewsCutoff)
        => cycle_log[k].outcome = "new"

\* The feed row an item came from
FeedOf(item) == CHOOSE f \in 1 .. Len(FeedRows) : FeedRows[f].rss = item.rss

\* The (platform, bot position) pairs of item i whose publisher call was issued
IssuedCalls(i) ==
    {t \in PlatformSet \X BotIdx : call[i][t[1]][t[2]] # "none"}

\* The bindings of feed row f on the enabled platforms that resolve to an
\* account and that send_to_* does not skip under flag ismute
BoundTargets(f, ismute) ==
    {t \in PlatformSet \X BotIdx :
        /\ EnabledBots[t[1]]
        /\ t[2] <= Len(Bots(FeedRows[f], t[1]))
        /\ find_bot(Accounts, t[1], Bots(FeedRows[f], t[1])[t[2]]) # 0
        /\ ~SkipMuted(Accounts[t[1]][find_bot(Accounts, t[1], Bots(FeedRows[f], t[1])[t[2]])],
                      ismute)}

\* C11: a cycle run with the mute flag true, whose only new item is the entry
\* of today of feed row 1 (no AI, bound to telegram t1 and t2 and to the
\* muted bluesky b1) and whose other feed gave nothing new, ends with exactly
\* the two telegram calls made, one row for the link, and no exception.
C11_EndToEnd ==
    (/\ pcW \in {"sleep", "closing", "stopped"}
     /\ stop_reason \notin {"interrupt", "signalled"}
     /\ mute_flag
     /\ Len(cycle_log) = 2
     /\ cycle_log[1].outcome = "new"
     /\ cycle_log[2].outcome \in {"seen", "old"}
     /\ StartOfDay(EntryDate(cycle_log[1].link)) = StartOfDay(cycle_now))
    => /\ stop_reason = "none"
       /\ IssuedCalls(1) = {<<"telegram", 1>>, <<"telegram", 2>>}
       /\ call[1]["telegram"][1] \in {"ok", "fail"}
       /\ call[1]["telegram"][2] \in {"ok", "fail"}
       /\ Cardinality(RowsOf(cycle_log[1].link)) = 1

\* C14: when the dispatch of a cycle has returned, each item has had exactly
\* one publisher call issued for each binding of its feed row that resolves
\* and is not skipped as muted, on every enabled platform.
C14_OneCallPerBinding ==
    (pcW \in {"record", "sleep"} /\ ~new_items.isNone)
    => \A i \in 1 .. Len(new_items.list) :
          IssuedCalls(i) = BoundTargets(FeedOf(new_items.list[i]), mute_flag)

\* C12: step g) takes the first cron fire time strictly after the clock it
\* read, and the sleep time it sets is that fire time minus the clock read
\* again, or zero when that difference is negative; the sleep time is never
\* negative.
C12_SleepNeverNegative ==
    /\ [](sleep_time >= 0)
    /\ [][(pcW = "record" /\ pcW' = "sleep")
          => \E fire \in now + 1 .. now + CronPeriod :
                /\ fire % CronPeriod = 0
                /\ sleep_time' = IF fire - now' < 0 THEN 0
                                 ELSE (fire - now') * SecPerTick]_vars

\* The cycle overran its next fire time and the sleep time was clamped
C12_Witness == pcW = "sleep" /\ sleep_time = 0 /\ now % CronPeriod # 0

\* C13: in every reachable state execution_logs holds at most one row per
\* link.
C13_UniqueLinks == \A l \in EntryIds : Cardinality(RowsOf(l)) <= 1

\* After a shutdown signal a step polls no feed and issues no publisher call
NothingNewAfterSignal ==
    stop_reason \in {"signalled", "interrupt"}
    => /\ Len(cycle_log') <= Len(cycle_log)
       /\ \A i \in ItemIdx, p \in PlatformSet, b \in BotIdx :
             call[i][p][b] = "none" => call'[i][p][b] = "none"

\* C15: once a shutdown signal has come, no further feed is polled and no
\* further publisher call is issued; and when the loop has stopped on the
\* signal, no publisher call is still running and the database connection is
\* closed.
C15_CleanShutdown ==
    /\ []((pcW = "stopped" /\ stop_reason = "interrupt")
          => /\ ~db_open
             /\ \A i \in ItemIdx, p \in PlatformSet, b \in BotIdx : call[i][p][b] # "running")
    /\ [][NothingNewAfterSignal]_vars

\* C16: no publisher call ends by raising: a transport error or a non-success
\* response comes back as a failure result.
C16_PublisherNeverRaises ==
    \A i \in ItemIdx, p \in PlatformSet, b \in BotIdx : call[i][p][b] # "raise"

\* The retention cutoff of the current cycle: the start of the day
\* retention_days days before the day the cycle began
RetentionCutoff == (cycle_now \div TicksPerDay - retention_days) * TicksPerDay

\* A purge that finds no row older than the cutoff leaves the table as it is
EmptyPurgeChangesNothing ==
    (/\ pcW = "cycle" /\ pcW' = "poll"
     /\ \A k \in 1 .. Len(execution_logs) :
           execution_logs[k].datetime >= (now \div TicksPerDay - retention_days) * TicksPerDay)
    => execution_logs' = execution_logs

\* C17: whenever a feed of a cycle is tested against execution_logs, the purge
\* of that cycle is done: no row older than the retention cutoff is left; and
\* a purge with no such row changes nothing.
C17_PurgeBeforePoll ==
    /\ [](pcW = "poll"
          => \A k \in 1 .. Len(execution_logs) :
                execution_logs[k].datetime >= RetentionCutoff)
    /\ [][EmptyPurgeChangesNothing]_vars

\* A cycle whose purge deleted the rows of some link and kept others
C17_Witness == pcW = "poll" /\ purged # {} /\ execution_logs # <<>>

\* Target t of a running dispatch has not had its publisher call issued and
\* is neither skipped nor given up
PendingTarget(t) ==
    /\ pcW = "await"
    /\ call[t[1]][t[2]][t[3]] = "none"
    /\ pcR[t[1]][t[2]][t[3]] \notin {"muted", "unresolved", "cancelled"}
    /\ pcS[t[1]][t[2]] \notin {"raised", "cancelled"}

\* What target t's call waits for is a callback already on the event loop's
\* queue, or the back-off timer of its own send_to task: never the end of
\* another publisher call
WaitsForLoopOnly(t) ==
    \/ pcS[t[1]][t[2]] = "none" /\ H("P", t[1], "-", 0) \in Range(ready)
    \/ pcS[t[1]][t[2]] \in {"new", "wake"} /\ H("S", t[1], t[2], 0) \in Range(ready)
    \/ pcS[t[1]][t[2]] = "sleep"
    \/ pcS[t[1]][t[2]] = "timer" /\ H("T", t[1], t[2], 0) \in Range(ready)
    \/ pcS[t[1]][t[2]] = "await" /\ H("R", t[1], t[2], t[3]) \in Range(ready)

\* C18: no publisher call of an item waits for another one to finish before
\* it is issued, and steps f) and g) of a cycle never start while a publisher
\* call of that cycle is still running.
C18_ConcurrentThenJoin ==
    /\ \A t \in Targets : PendingTarget(t) => WaitsForLoopOnly(t)
    /\ pcW \in {"record", "sleep"}
       => \A i \in ItemIdx, p \in PlatformSet, b \in BotIdx : call[i][p][b] # "running"

\* Two publisher calls of one item are running at the same time
C18_Witness ==
    \E t, u \in Targets :
        /\ t # u
        /\ t[1] = u[1]
        /\ call[t[1]][t[2]][t[3]] = "running"
        /\ call[u[1]][u[2]][u[3]] = "running"


\* The comment the poller stored for an item, under the key get_latest_rss uses
PolledComment(item) == Get(item, "ai_comment", "None")

\* C19: on every platform, the text given to a publisher call for an item as
\* the poller builds it is the item's AI comment when the poller populated
\* one, and the title followed by the description otherwise
C19_TextIsCommentOrTitleDescription ==
    \A t \in Targets :
        LET item == new_items.list[t[1]]
        IN  (call[t[1]][t[2]][t[3]] # "none" /\ "ai-comment" \notin DOMAIN item)
            => sent[t[1]][t[2]][t[3]].text =
                 IF ~Falsy(PolledComment(item)) THEN <<PolledComment(item)>>
                 ELSE <<item.title, item.description>>

\* The short_link of an item is an http or https URL
ShortLinkIsHttp(item) == Get(item, "short_link", "None") \in {"http://s", "HTTPS://s"}

\* C20: every publisher call, on each of the three platforms, is given the
\* item's short_link when that is an http or https URL and the item's
\* canonical link otherwise; and whatever the short_link is, a dispatch that
\* returned has attempted every target
C20_LinkIsShortOrCanonical ==
    /\ \A t \in Targets :
          LET item == new_items.list[t[1]]
          IN  call[t[1]][t[2]][t[3]] # "none"
              => sent[t[1]][t[2]][t[3]].link =
                   IF ShortLinkIsHttp(item) THEN item.short_link ELSE item.link
    /\ pcW \in {"record", "sleep"}
       => \A t \in Targets : call[t[1]][t[2]][t[3]] # "none"

\* A dispatch returned with a call on each of the three platforms, all given
\* the canonical link because the short_link is not an http or https URL
C20_Witness ==
    /\ pcW = "record"
    /\ \A p \in PlatformSet : \E t \in Targets : t[2] = p
    /\ \A t \in Targets :
          /\ ~ShortLinkIsHttp(new_items.list[t[1]])
          /\ call[t[1]][t[2]][t[3]] = "ok"
          /\ sent[t[1]][t[2]][t[3]].link = new_items.list[t[1]].link


\* C21: an item of the poll carries what the AI collaborator answered exactly
\* when its feed has AI enabled - a comment, or the empty answer of a failure -
\* whatever the cycle's mute flag is; None, the value of an item the
\* collaborator was never asked about, is only on items of feeds without AI
C21_CommentIffAIEnabled ==
    \A k \in 1 .. Len(rsss) :
        LET item == rsss[k]
        IN  IF FeedRows[FeedOf(item)].ai
            THEN PolledComment(item) \in AIResults
            ELSE PolledComment(item) = "None"


\* What the poll of one feed comes to when its fetch gave r, as C22 has it:
\* with no dated entry the feed adds nothing and the poll moves on to the next
\* feed; otherwise the entry looked at is a dated one of the greatest date
SelectsLatestDated(r) ==
    LET dated == {e \in r.entries : HasDate(e)}
        pick == cycle_log'[Len(cycle_log')].link
    IN  IF dated = {}
        THEN pcW' = "poll" /\ feed_idx' = feed_idx + 1 /\ rsss' = rsss
        ELSE pick \in dated /\ \A o \in dated : EntryDate(o) <= EntryDate(pick)

PollSelectsLatestDated ==
    \A r \in FetchResults, c \in AIResults :
        (r.ok /\ r.entries # {} /\ PollFeed(r, c)) => SelectsLatestDated(r)

\* C22: every poll of a feed whose fetch gave entries looks at the dated entry of
\* the greatest timestamp; entries without a timestamp are never picked, and
\* a feed none of whose entries has a timestamp yields no item while the poll
\* goes on with the next feed
C22_LatestDatedEntry == [][PollSelectsLatestDated]_vars


\* The send_to_linkedin task of item i is in, or about to leave, the back-off
\* of the bot at its position idxS
InBackoff(i) == pcS[i]["linkedin"] \in {"sleep", "timer", "wake"}

\* C23: a send_to_linkedin task backs off only when sleep_time > 30, and
\* while it awaits the back-off of one bot the publisher call of every bot
\* whose back-off it awaited before has already been started
C23_BackoffStaggersPosts ==
    \A i \in ItemIdx :
        InBackoff(i)
        => /\ sleep_time > BackoffThreshold
           /\ \A b \in Range(tasksS[i]["linkedin"]) : call[i]["linkedin"][b] # "none"


\* C24: a cycle never computes its mute flag from a window whose from or to
\* is not a valid time of day: such a window does not get past the
\* construction of the MuteTimeChecker
C24_InvalidWindowRejected ==
    pcW = "poll" => (mute_from \in TimesOfDay /\ mute_to \in TimesOfDay)

\* C25: in every post_without_preview call, truncate_text returns the text
\* unchanged when it is no longer than the max_length it is given and
\* otherwise a text of at most max_length characters that ends in "...", and
\* the body is never longer than MAX_POST_LENGTH
C25_BodyFitsPost ==
    bsky.pc = "posted"
    => /\ IF bsky.text.len <= bsky.max_length THEN bsky.cut = bsky.text
          ELSE bsky.cut.len <= bsky.max_length /\ bsky.cut.dots
       /\ bsky.body <= MAX_POST_LENGTH

\* A publisher call of the cycle has raised
SomeCallRaised == \E t \in Targets : call[t[1]][t[2]][t[3]] = "raise"

\* The store changes only in step f), when the _process_item task of every
\* item has returned, and then by the insert of the cycle's items
RecordsOnlyAfterDispatch ==
    execution_logs' # execution_logs
    => /\ pcW = "record"
       /\ \A i \in 1 .. Len(new_items.list) : pcP[i] = "done"
       /\ execution_logs' = insert_execution_log_from_json(execution_logs, new_items.list, now)

\* C26: the store is written only by the record step, after the dispatch of
\* every item has returned; once a publisher call of the cycle has raised, no
\* link of the cycle is in the store, the delivered items' links included
C26_NothingRecordedAfterRaise ==
    /\ [](SomeCallRaised => execution_logs = <<>>)
    /\ [][RecordsOnlyAfterDispatch]_vars

\* The loop ended on the raise of the LinkedIn call of the second item, the
\* Telegram call of the first item delivered, and the store is empty
C26_Witness ==
    /\ pcW = "stopped" /\ stop_reason = "fatal"
    /\ call[1]["telegram"][1] = "ok"
    /\ call[2]["linkedin"][1] = "raise"
    /\ execution_logs = <<>>


\* The link was recorded at some earlier time, not before its entry's timestamp
RecordedBefore(link) ==
    \E row \in recorded : row.link = link /\ EntryDate(link) <= row.datetime

ThreadStep ==
    \E t \in Targets : /\ call[t[1]][t[2]][t[3]] = "running"
                       /\ call'[t[1]][t[2]][t[3]] # "running"

\* The step writes the store or closes the connection
StoreStep == execution_logs' # execution_logs \/ db_open' # db_open

\* A step on the store is a step of _worker_loop or of main's shutdown, taken
\* outside the dispatch, and no executor thread's step
StoreStepOnLoopThread ==
    StoreStep => (pcW \in {"cycle", "record", "closing"} /\ ~ThreadStep)

\* C28: the store is written and closed only by the loop's own steps, never
\* by a step of an executor thread and never while the items are being
\* dispatched, and the connection is closed only when no publisher call runs
C28_StoreOnLoopThreadOnly ==
    /\ [][StoreStepOnLoopThread]_vars
    /\ [](~db_open => \A t \in Targets : call[t[1]][t[2]][t[3]] # "running")

\* The publisher calls of two items run in executor threads at the same
\* time, the dispatch awaiting them, and the store as the purge left it
C28_Witness ==
    /\ pcW = "await"
    /\ call[1]["telegram"][1] = "running"
    /\ call[2]["linkedin"][1] = "running"
    /\ db_open /\ execution_logs = <<>>


\* The cycle's dispatch is over: every _process_item task has returned and no
\* publisher call is in a thread
DispatchComplete ==
    /\ \A i \in 1 .. Len(new_items.list) : pcP[i] = "done"
    /\ \A t \in Targets : call[t[1]][t[2]][t[3]] # "running"

\* The cycle's items all have their row in the store
LinksRecorded ==
    \A i \in 1 .. Len(new_items.list) :
        link_exists_in_execution_logs(execution_logs, new_items.list[i].link)

\* A new cycle starts only out of the finished sleep of the cycle before
NextCycleAfterSleep ==
    (pcW # "cycle" /\ pcW' = "cycle")
    => /\ pcW = "sleep"
       /\ now' = now + sleep_time \div SecPerTick
       /\ DispatchComplete /\ LinksRecorded

\* The sleep is counted from the clock read after the dispatch and the record
SleepFromClockAfterRecord ==
    (pcW = "record" /\ pcW' = "sleep")
    => /\ DispatchComplete /\ LinksRecorded'
       /\ now' >= now
       /\ sleep_time' = Max(0, (CronNext(now) - now') * SecPerTick)

\* C29: the purge and poll of a cycle start only when the cycle before has
\* completed every dispatch, recorded its links and finished its sleep, and
\* that sleep runs from the clock read after dispatch and record to the next
\* fire time, or is zero when the cycle ran past it
C29_CyclesNeverOverlap ==
    /\ [](pcW \in {"cycle", "poll"}
          => \A t \in ItemIdx \X PlatformSet \X BotIdx : call[t[1]][t[2]][t[3]] = "none")
    /\ [][NextCycleAfterSleep]_vars
    /\ [][SleepFromClockAfterRecord]_vars

\* A second cycle polls after a first one whose dispatch ran past the fire
\* time: its two items are recorded and its sleep was zero
C29_Witness ==
    /\ pcW = "poll"
    /\ Cardinality(recorded) = 2
    /\ sleep_time = 0


\* The bot positions send_to_telegram's loop has gone through for item i
TelegramProcessed(i) ==
    IF pcS[i]["telegram"] \in {"none", "new"} THEN {}
    ELSE {b \in BotIdx : b < idxS[i]["telegram"]}

====
